---- MODULE Spec2Model ----
(***************************************************************************)
(* Model of rollup-app-vendors-sass-serve/gulpfile.js: the configuration   *)
(* merge done while the file is loaded, and the gulp 3 task graph          *)
(* (default, watch, serve, app, vendors, sass) it registers.               *)
(***************************************************************************)
EXTENDS Integers, Sequences, FiniteSets, TLC

VARIABLES
    localFile,  \* what require('./.local') finds on disk
    cpc,        \* position in the load of the gulpfile: "start", "loaded", "merged"
    banner,     \* lines written by gutil.log while loading
    local,      \* let local
    config,     \* const config
    booted,     \* the gulp command line has called gulp.start
    done,       \* orchestrator: task.done
    running,    \* orchestrator: task.running
    isRunning,  \* orchestrator: this.isRunning
    seq,        \* orchestrator: this.seq
    stepping,   \* orchestrator: inside _runStep
    pipe,       \* the stream pipeline of each of app, vendors, sass
    src,        \* the source files: whether each compiles as last saved
    disk,       \* the output directory: whether each artifact exists
    bindings,   \* the source watchers registered by gulp.watch(task.watch, task.run)
    outWatch,   \* the watcher on the output files is registered
    bsInit,     \* browserSync.init has been called
    pending,    \* output files whose change event is not yet delivered
    signalled,  \* output files for which browserSync.reload was called since their last write
    diag,       \* lines logged by onError in the current (or last) run of a task
    failed,     \* the source on which the current (or last) run of a task had a stage
                \* error ("": none)
    alive,      \* the process has not died of an unhandled 'error' event
    edits,      \* number of saves of source files so far
    limit,      \* number of saves explored
    wrote,      \* history: paths the current (or last) run of a task has written
    writers,    \* history: the tasks that have written each path
    ev          \* history: the last change event the source watchers dispatched, the tasks
                \* handed to gulp.start, those then running, and those started since

cvars == <<localFile, cpc, banner, local, config>>

ovars == <<booted, done, running, isRunning, seq, stepping>>

wvars == <<bindings, outWatch, bsInit, pending, signalled>>

hvars == <<wrote, writers, ev>>

mvars == <<ovars, wvars, hvars, pipe, src, disk, diag, failed, alive, edits, limit>>

vars == <<cvars, mvars>>

-----------------------------------------------------------------------------
(* JavaScript values: scalars, arrays, plain objects and undefined, all in *)
(* one record shape so that any two of them can be compared.               *)

NoMap == [k \in {} |-> ""]

Undefined == [t |-> "u", s |-> "", l |-> <<>>, m |-> NoMap]

Scalar(v) == [t |-> "s", s |-> v, l |-> <<>>, m |-> NoMap]

List(v) == [t |-> "l", s |-> "", l |-> v, m |-> NoMap]

Map(v) == [t |-> "m", s |-> "", l |-> <<>>, m |-> v]

Max(a, b) == IF a >= b THEN a ELSE b

(* _.merge(object, source): baseMerge walks the keys of the source; a     *)
(* source value that is an array or a plain object is merged into the     *)
(* destination value key by key (an array index by index), any other      *)
(* value is assigned, and an undefined source value is skipped when the   *)
(* destination has the key.                                               *)
RECURSIVE mergeValue(_, _)
mergeValue(objValue, srcValue) ==
    CASE srcValue.t = "u" -> objValue
      [] srcValue.t = "s" -> srcValue
      [] srcValue.t = "l" ->
            LET o == IF objValue.t = "l" THEN objValue.l ELSE <<>>
                s == srcValue.l
            IN  List([i \in 1..Max(Len(o), Len(s)) |->
                        IF i > Len(s) THEN o[i]
                        ELSE IF i > Len(o) THEN mergeValue(Undefined, s[i])
                        ELSE mergeValue(o[i], s[i])])
      [] srcValue.t = "m" ->
            IF objValue.t = "l"
            THEN objValue   \* the array is kept; named properties on it are not represented
            ELSE LET o == IF objValue.t = "m" THEN objValue.m ELSE NoMap
                     s == srcValue.m
                 IN  Map([k \in (DOMAIN o) \cup (DOMAIN s) |->
                            IF k \notin DOMAIN s THEN o[k]
                            ELSE IF k \notin DOMAIN o THEN mergeValue(Undefined, s[k])
                            ELSE mergeValue(o[k], s[k])])

(* A merge that would let the source replace the destination outright.     *)
mergeDropsDefaults(object, source) == source

merge(object, source) == mergeValue(object, source)

-----------------------------------------------------------------------------
(* The default settings, gulpfile.js lines 54-83.                          *)

DefaultBrowsers == <<Scalar("iOS 9"), Scalar("ie >= 10"), Scalar("last 2 Chrome versions")>>

Defaults ==
    Map([k \in {"sourcemaps", "sassSource", "appSource", "jsSource",
                "browsersync", "supportedBrowsers"} |->
        CASE k = "sourcemaps" -> Scalar("true")
          [] k = "sassSource" -> Scalar("./resources/assets/sass")
          [] k = "appSource" -> Scalar("./resources/assets/app")
          [] k = "jsSource" -> Scalar("./resources/assets/js")
          [] k = "browsersync" ->
                Map([b \in {"open", "notify", "snippetOptions"} |->
                    IF b = "snippetOptions"
                    THEN Map([r \in {"rule"} |->
                            Map([f \in {"match", "fn"} |->
                                IF f = "match" THEN Scalar("/<\\/body>/i")
                                ELSE Scalar("(snippet, match) => snippet + match")])])
                    ELSE Scalar("false")])
          [] k = "supportedBrowsers" -> List(DefaultBrowsers)])

-----------------------------------------------------------------------------
(* The override files the configuration specification is explored over.    *)

MaxOverrideLen == 4

Absent == [t |-> "absent", s |-> "", l |-> <<>>, m |-> NoMap]

OverrideKeys == {"sourcemaps", "jsSource", "browsersync", "supportedBrowsers", "port"}

OverrideLists == {List([i \in 1..n |-> Scalar("last 1 version")]) : n \in 0..MaxOverrideLen}

OverrideOptions(k) ==
    CASE k = "sourcemaps" -> {Absent, Scalar("false"), Undefined}
      [] k = "jsSource" -> {Absent, Scalar("./resources/assets")}
      [] k = "browsersync" ->
            {Absent, Scalar("off"),
             Map([b \in {"open"} |-> Scalar("true")]),
             Map([b \in {"proxy"} |-> Scalar("localhost")]),
             Map([b \in {"snippetOptions"} |-> Map([r \in {"rule"} |-> Scalar("none")])]),
             Map([b \in {"snippetOptions"} |->
                    Map([r \in {"rule"} |-> Map([f \in {"match"} |-> Scalar("/<\\/head>/i")])])])}
      [] k = "supportedBrowsers" -> {Absent, Scalar("defaults")} \cup OverrideLists
      [] k = "port" -> {Absent, Scalar("3000"), List(<<Scalar("a")>>),
                        Map([b \in {"ui"} |-> Scalar("3001")])}

Overrides ==
    {Map([k \in {j \in OverrideKeys : c[j] # Absent} |-> c[k]]) :
        c \in {[k \in OverrideKeys |->
                    CASE k = "sourcemaps" -> a [] k = "jsSource" -> b [] k = "browsersync" -> d
                      [] k = "supportedBrowsers" -> e [] k = "port" -> f] :
                a \in OverrideOptions("sourcemaps"), b \in OverrideOptions("jsSource"),
                d \in OverrideOptions("browsersync"), e \in OverrideOptions("supportedBrowsers"),
                f \in OverrideOptions("port")}}

LocalFiles ==
    {[state |-> "absent", exports |-> Map(NoMap)], [state |-> "broken", exports |-> Map(NoMap)]}
        \cup {[state |-> "present", exports |-> o] : o \in Overrides}

-----------------------------------------------------------------------------
(* The task registry: gulp.task(name, deps, fn), lines 103, 109, 138, 146, *)
(* 187, 224.                                                               *)

Tasks == {"app", "vendors", "sass", "default", "watch", "serve"}

StreamTasks == {"app", "vendors", "sass"}

(* The commands explored: gulp (default) and gulp serve, which runs watch  *)
(* as its prerequisite.                                                    *)
Commands == {"default", "serve"}

(* A registry in which 'watch' has lost its prerequisite.                   *)
watchDepsNone(t) ==
    CASE t = "default" -> <<"app", "vendors", "sass">>
      [] t = "watch" -> <<>>
      [] t = "serve" -> <<"watch">>
      [] OTHER -> <<>>

Deps(t) ==
    CASE t = "default" -> <<"app", "vendors", "sass">>
      [] t = "watch" -> <<"default">>
      [] t = "serve" -> <<"watch">>
      [] OTHER -> <<>>

Range(q) == {q[i] : i \in 1..Len(q)}

(* orchestrator's sequencify: every task after its dependencies, once.     *)
RECURSIVE sequence(_, _)
sequence(names, results) ==
    IF names = <<>> THEN results
    ELSE LET n == Head(names)
         IN  IF n \in Range(results) THEN sequence(Tail(names), results)
             ELSE sequence(Tail(names), Append(sequence(Deps(n), results), n))

RECURSIVE withDeps(_)
withDeps(names) ==
    IF names = <<>> THEN {}
    ELSE {Head(names)} \cup withDeps(Deps(Head(names))) \cup withDeps(Tail(names))

(* orchestrator's start(names): a call made while a run is in play resets  *)
(* the named tasks and prepends them to the queue; otherwise every task is *)
(* reset and the queue is the named tasks with their dependencies.         *)
startDone(names) ==
    IF isRunning
    THEN [t \in Tasks |-> IF t \in withDeps(names) THEN FALSE ELSE done[t]]
    ELSE [t \in Tasks |-> FALSE]

startSeq(names) == sequence(IF isRunning THEN names \o seq ELSE names, <<>>)

(* orchestrator's _readyToRunTask and the test in _runStep.                *)
ready(t) == ~done[t] /\ ~running[t] /\ \A d \in Range(Deps(t)) : done[d]

FirstReady ==
    LET idx == {i \in 1..Len(seq) : ready(seq[i])}
    IN  IF idx = {} THEN "none" ELSE seq[CHOOSE i \in idx : \A j \in idx : i <= j]

-----------------------------------------------------------------------------
(* The pipelines: lines 174-180, 211-217 and 251-260. Each stage carries   *)
(* whether .on('error', onError) is attached to it.                        *)

Stage(name, handler) == [name |-> name, onError |-> handler]

(* The app pipeline as it would be with rollup's .on('error') removed.     *)
appPipelineNoHandler ==
    <<Stage("rollup", FALSE), Stage("source", FALSE), Stage("buffer", FALSE),
      Stage("sourcemaps.init", FALSE), Stage("sourcemaps.write", FALSE), Stage("dest", FALSE)>>

AppPipeline ==
    <<Stage("rollup", TRUE), Stage("source", FALSE), Stage("buffer", FALSE),
      Stage("sourcemaps.init", FALSE), Stage("sourcemaps.write", FALSE), Stage("dest", FALSE)>>

VendorsPipeline ==
    <<Stage("rollup", TRUE), Stage("source", FALSE), Stage("buffer", FALSE),
      Stage("sourcemaps.init", FALSE), Stage("sourcemaps.write", FALSE), Stage("dest", FALSE)>>

SassPipeline ==
    <<Stage("src", FALSE), Stage("sourcemaps.init", FALSE), Stage("sass", TRUE),
      Stage("autoprefixer", TRUE), Stage("csso", TRUE), Stage("sourcemaps.write", FALSE),
      Stage("dest", FALSE)>>

Pipeline(t) ==
    CASE t = "app" -> AppPipeline
      [] t = "vendors" -> VendorsPipeline
      [] t = "sass" -> SassPipeline

(* The stages that reject a source that does not compile.                  *)
FailStages(t) == IF t = "sass" THEN {"sass", "autoprefixer", "csso"} ELSE {"rollup"}

HasHandler(t, stage) ==
    \E i \in 1..Len(Pipeline(t)) : Pipeline(t)[i].name = stage /\ Pipeline(t)[i].onError

(* .pipe(sourcemaps.write(...)) ahead of gulp.dest writes the .map file;   *)
(* the stage is piped whatever config.sourcemaps holds.                    *)
WritesMap(t) ==
    \E i, j \in 1..Len(Pipeline(t)) :
        i < j /\ Pipeline(t)[i].name = "sourcemaps.write" /\ Pipeline(t)[j].name = "dest"

(* An error handler that logs and does not end the stream.                 *)
onErrorNoEnd(n) == [diag |-> n + 1, end |-> FALSE]

(* onError, lines 94-97: one gutil.log line, then this.emit('end').        *)
onError(n) == [diag |-> n + 1, end |-> TRUE]

-----------------------------------------------------------------------------
(* Files.                                                                  *)

Path(dir, name) == [dir |-> dir, name |-> name]

(* Destinations as they would be with vendors writing over app's output.   *)
vendorsDestOfApp(t) ==
    CASE t = "app" -> Path("./public/js", "app.js")
      [] t = "vendors" -> Path("./public/js", "app.js")
      [] t = "sass" -> Path("./public/css", "")

(* file and gulp.dest(...) of each task: lines 147/180, 188/217, 260.      *)
DestOf(t) ==
    CASE t = "app" -> Path("./public/js", "app.js")
      [] t = "vendors" -> Path("./public/js", "vendors.js")
      [] t = "sass" -> Path("./public/css", "")

(* The stylesheets gulp.src(config.sassSource + '/**/*.scss') finds, in    *)
(* the order it emits them.                                                *)
SassFiles == <<"admin.scss", "app.scss">>

CssName(f) == CASE f = "admin.scss" -> "admin.css" [] f = "app.scss" -> "app.css"

MapName(n) ==
    CASE n = "app.js" -> "app.js.map"
      [] n = "vendors.js" -> "vendors.js.map"
      [] n = "admin.css" -> "admin.css.map"
      [] n = "app.css" -> "app.css.map"

Units == {"app", "vendors"} \cup Range(SassFiles)

UnitsOf(t) == IF t = "sass" THEN Range(SassFiles) ELSE {t}

(* The artifact a task writes for one of its sources.                      *)
ArtifactOf(t, u) == IF t = "sass" THEN Path(DestOf(t).dir, CssName(u)) ELSE DestOf(t)

(* What gulp.dest writes for one source: the artifact and, behind          *)
(* sourcemaps.write, its map.                                              *)
Written(t, u) ==
    {ArtifactOf(t, u)} \cup
        (IF WritesMap(t) THEN {Path(ArtifactOf(t, u).dir, MapName(ArtifactOf(t, u).name))} ELSE {})

OutputsOf(t) ==
    UNION {{ArtifactOf(t, u), Path(ArtifactOf(t, u).dir, MapName(ArtifactOf(t, u).name))} :
            u \in UnitsOf(t)}

OutPaths == UNION {OutputsOf(t) : t \in StreamTasks}

(* The output watcher as it would be without the stylesheet.               *)
watchedOutputsNoCss ==
    {Path("./public/js", "app.js"), Path("./public/js", "vendors.js")}

(* The output files watched for the reload, lines 127-131.                 *)
WatchedOutputs ==
    {Path("./public/js", "app.js"), Path("./public/js", "vendors.js"),
     Path("./public/css", "app.css")}

(* The source files a developer saves: the unit each belongs to, the       *)
(* configured directory it lives in, and its extension.                    *)
SourceFiles ==
    {[name |-> "admin.scss", unit |-> "admin.scss", dirKey |-> "sassSource", ext |-> "scss"],
     [name |-> "app.scss", unit |-> "app.scss", dirKey |-> "sassSource", ext |-> "scss"],
     [name |-> "app.js", unit |-> "app", dirKey |-> "appSource", ext |-> "js"],
     [name |-> "foo.html", unit |-> "app", dirKey |-> "appSource", ext |-> "html"],
     [name |-> "vendors.js", unit |-> "vendors", dirKey |-> "jsSource", ext |-> "js"]}

DirOf(f) == config.m[f.dirKey].s

Parent(d) ==
    CASE d \in {"./resources/assets/sass", "./resources/assets/app", "./resources/assets/js"}
            -> "./resources/assets"
      [] d = "./resources/assets" -> "./resources"
      [] OTHER -> "."

(* root + '/**/*.' + ext matches a file of that extension in root or       *)
(* anywhere below it.                                                      *)
RECURSIVE IsUnder(_, _)
IsUnder(d, root) == d = root \/ (d # "." /\ IsUnder(Parent(d), root))

Glob(root, ext) == [root |-> root, ext |-> ext]

Matches(g, f) == f.ext = g.ext /\ IsUnder(DirOf(f), g.root)

(* Bindings as they would be with the sass glob bound to 'app'.            *)
watchBindingsSassRunsApp ==
    <<[watch |-> {Glob(config.m["sassSource"].s, "scss")}, run |-> <<"sass", "app">>],
      [watch |-> {Glob(config.m["appSource"].s, "js"), Glob(config.m["appSource"].s, "html")},
       run |-> <<"app">>],
      [watch |-> {Glob(config.m["jsSource"].s, "js")}, run |-> <<"vendors">>]>>

(* The array of lines 110-122.                                             *)
WatchBindings ==
    <<[watch |-> {Glob(config.m["sassSource"].s, "scss")}, run |-> <<"sass">>],
      [watch |-> {Glob(config.m["appSource"].s, "js"), Glob(config.m["appSource"].s, "html")},
       run |-> <<"app">>],
      [watch |-> {Glob(config.m["jsSource"].s, "js")}, run |-> <<"vendors">>]>>

(* The run lists of the registered bindings a saved file matches, in the   *)
(* order the bindings were registered.                                     *)
RECURSIVE Dispatch(_, _)
Dispatch(bs, f) ==
    IF bs = <<>> THEN <<>>
    ELSE (IF \E g \in Head(bs).watch : Matches(g, f) THEN Head(bs).run ELSE <<>>)
            \o Dispatch(Tail(bs), f)

-----------------------------------------------------------------------------
(* Bounds and the state once the gulpfile has registered its tasks.        *)

MaxEdits == 2

MaxFairEdits == 1

NoEvent == [file |-> "", names |-> {}, wasRunning |-> {}, started |-> {}]

IdlePipe == [st |-> "idle", idx |-> 0]

Registered ==
    /\ booted = FALSE
    /\ done = [t \in Tasks |-> FALSE]
    /\ running = [t \in Tasks |-> FALSE]
    /\ isRunning = FALSE
    /\ seq = <<>>
    /\ stepping = FALSE
    /\ pipe = [t \in StreamTasks |-> IdlePipe]
    /\ disk = [p \in OutPaths |-> FALSE]
    /\ bindings = <<>>
    /\ outWatch = FALSE
    /\ bsInit = FALSE
    /\ pending = {}
    /\ signalled = {}
    /\ diag = [t \in StreamTasks |-> 0]
    /\ failed = [t \in StreamTasks |-> ""]
    /\ alive = TRUE
    /\ edits = 0
    /\ wrote = [t \in StreamTasks |-> {}]
    /\ writers = [p \in OutPaths |-> {}]
    /\ ev = NoEvent

-----------------------------------------------------------------------------
(* Loading the gulpfile: lines 41-48 and 54-83.                            *)

ConfigInit ==
    /\ localFile \in LocalFiles
    /\ cpc = "start"
    /\ banner = <<>>
    /\ local = Map(NoMap)
    /\ config = Undefined
    /\ src = [u \in Units |-> TRUE]
    /\ limit = 0
    /\ Registered

(* try { log; local = require('./.local') } catch (e) { log }             *)
LoadLocal ==
    /\ cpc = "start"
    /\ cpc' = "loaded"
    /\ IF localFile.state = "present"
       THEN /\ local' = localFile.exports
            /\ banner' = <<" === Local build === ">>
       ELSE /\ local' = local
            /\ banner' = <<" === Local build === ", " === Production build === ">>
    /\ UNCHANGED <<localFile, config, mvars>>

(* const config = _.merge({...}, local)                                    *)
MergeConfig ==
    /\ cpc = "loaded"
    /\ cpc' = "merged"
    /\ config' = merge(Defaults, local)
    /\ UNCHANGED <<localFile, banner, local, mvars>>

ConfigNext == LoadLocal \/ MergeConfig

SpecConfig == ConfigInit /\ [][ConfigNext]_vars

-----------------------------------------------------------------------------
(* The task graph, started by the gulp command line once the gulpfile is   *)
(* loaded. The override files the task graph is explored over.             *)

TaskLocalFiles ==
    {[state |-> "absent", exports |-> Map(NoMap)],
     [state |-> "present",
      exports |-> Map([k \in {"sourcemaps", "jsSource"} |->
                        IF k = "sourcemaps" THEN Scalar("false") ELSE Scalar("./resources/assets")])]}

(* The sources that do not compile when gulp is started.                   *)
InitialBroken == {{}, {"app"}, {"app.scss"}}

Loaded ==
    /\ localFile \in TaskLocalFiles
    /\ cpc = "merged"
    /\ banner = IF localFile.state = "present"
                THEN <<" === Local build === ">>
                ELSE <<" === Local build === ", " === Production build === ">>
    /\ local = localFile.exports
    /\ config = merge(Defaults, local)
    /\ src \in {[u \in Units |-> u \notin b] : b \in InitialBroken}
    /\ Registered

Init == Loaded /\ limit = MaxEdits

FairInit == Loaded /\ limit = MaxFairEdits

(* gulp <command>: gulp.start(command), then _runStep.                     *)
CliStart ==
    /\ ~booted
    /\ \E c \in Commands :
        /\ done' = startDone(<<c>>)
        /\ seq' = startSeq(<<c>>)
    /\ booted' = TRUE
    /\ isRunning' = TRUE
    /\ stepping' = TRUE
    /\ UNCHANGED <<cvars, running, wvars, hvars, pipe, src, disk, diag, failed, alive, edits, limit>>

(* _runTask of app, vendors or sass: the task function builds its stream   *)
(* and returns it.                                                         *)
RunStreamTask ==
    /\ alive /\ stepping
    /\ FirstReady \in StreamTasks
    /\ LET t == FirstReady
       IN  /\ running' = [running EXCEPT ![t] = TRUE]
           /\ pipe' = [pipe EXCEPT ![t] = [st |-> "open", idx |-> 1]]
           /\ diag' = [diag EXCEPT ![t] = 0]
           /\ failed' = [failed EXCEPT ![t] = ""]
           /\ wrote' = [wrote EXCEPT ![t] = {}]
           /\ ev' = IF ev = NoEvent THEN ev ELSE [ev EXCEPT !.started = @ \cup {t}]
    /\ UNCHANGED <<cvars, booted, done, isRunning, seq, stepping, wvars, writers,
                   src, disk, alive, edits, limit>>

(* _runTask of default: no function, done at once.                         *)
RunDefault ==
    /\ alive /\ stepping
    /\ FirstReady = "default"
    /\ done' = [done EXCEPT !["default"] = TRUE]
    /\ UNCHANGED <<cvars, booted, running, isRunning, seq, stepping, wvars, hvars, pipe, src,
                   disk, diag, failed, alive, edits, limit>>

(* _runTask of watch, lines 109-132: the three source watchers and the     *)
(* watcher on the output files; synchronous, done at once.                 *)
RunWatch ==
    /\ alive /\ stepping
    /\ FirstReady = "watch"
    /\ bindings' = WatchBindings
    /\ outWatch' = TRUE
    /\ done' = [done EXCEPT !["watch"] = TRUE]
    /\ UNCHANGED <<cvars, booted, running, isRunning, seq, stepping, bsInit, pending, signalled,
                   hvars, pipe, src, disk, diag, failed, alive, edits, limit>>

(* _runTask of serve, lines 138-140: browserSync.init(config.browsersync). *)
RunServe ==
    /\ alive /\ stepping
    /\ FirstReady = "serve"
    /\ bsInit' = TRUE
    /\ done' = [done EXCEPT !["serve"] = TRUE]
    /\ UNCHANGED <<cvars, booted, running, isRunning, seq, stepping, bindings, outWatch, pending,
                   signalled, hvars, pipe, src, disk, diag, failed, alive, edits, limit>>

(* The end of _runStep: nothing left to start; stop once all is done.      *)
EndStep ==
    /\ alive /\ stepping
    /\ FirstReady = "none"
    /\ stepping' = FALSE
    /\ isRunning' = IF \A i \in 1..Len(seq) : done[seq[i]] THEN FALSE ELSE isRunning
    /\ UNCHANGED <<cvars, booted, done, running, seq, wvars, hvars, pipe, src, disk, diag,
                   failed, alive, edits, limit>>

(* A compiler that accepts every source.                                   *)
compilesAlways(u) == TRUE

(* Whether a source goes through the stages that can reject it.            *)
Compiles(u) == src[u]

(* An 'error' event on a stage of a task's pipeline: onError when it is    *)
(* attached there, which logs and emits 'end' so that the stream finishes; *)
(* with no listener the event is thrown and the process dies.              *)
StageError(t, stage, u) ==
    /\ failed' = [failed EXCEPT ![t] = u]
    /\ IF HasHandler(t, stage)
       THEN /\ diag' = [diag EXCEPT ![t] = onError(@).diag]
            /\ pipe' = [pipe EXCEPT ![t].st = IF onError(diag[t]).end THEN "ending" ELSE "hung"]
            /\ alive' = alive
       ELSE /\ alive' = FALSE
            /\ UNCHANGED <<diag, pipe>>

(* gulp.dest and the output watcher: the files are written, and a watched  *)
(* one among them has a change event coming.                               *)
WriteOut(t, u) ==
    /\ disk' = [p \in OutPaths |-> p \in Written(t, u) \/ disk[p]]
    /\ wrote' = [wrote EXCEPT ![t] = @ \cup Written(t, u)]
    /\ writers' = [p \in OutPaths |-> IF p \in Written(t, u) THEN writers[p] \cup {t}
                                       ELSE writers[p]]
    /\ pending' = IF outWatch THEN pending \cup (Written(t, u) \cap WatchedOutputs) ELSE pending
    /\ signalled' = signalled \ Written(t, u)

(* rollup(rollupOptions) of app or vendors: the bundle, or an 'error'.     *)
Rollup ==
    /\ alive /\ ~stepping
    /\ \E t \in {"app", "vendors"} :
        /\ pipe[t].st = "open"
        /\ IF Compiles(t)
           THEN /\ pipe' = [pipe EXCEPT ![t].st = "bundled"]
                /\ UNCHANGED <<diag, failed, alive>>
           ELSE StageError(t, "rollup", t)
    /\ UNCHANGED <<cvars, ovars, wvars, hvars, src, disk, edits, limit>>

(* .pipe(source(file)) ... .pipe(gulp.dest('./public/js')) of app or       *)
(* vendors, fed with the bundle.                                           *)
Dest ==
    /\ alive /\ ~stepping
    /\ \E t \in {"app", "vendors"} :
        /\ pipe[t].st = "bundled"
        /\ WriteOut(t, t)
        /\ pipe' = [pipe EXCEPT ![t].st = "ending"]
    /\ UNCHANGED <<cvars, ovars, bindings, outWatch, bsInit, ev, src, diag, failed, alive, edits, limit>>

(* The next stylesheet through the pipeline of sass, lines 251-260: it is  *)
(* written, or one of sass, autoprefixer, csso emits 'error' on it.        *)
SassFile ==
    /\ alive /\ ~stepping
    /\ pipe["sass"].st = "open"
    /\ LET f == SassFiles[pipe["sass"].idx]
       IN  IF Compiles(f)
           THEN /\ WriteOut("sass", f)
                /\ pipe' = [pipe EXCEPT !["sass"] =
                                IF @.idx = Len(SassFiles)
                                THEN [st |-> "ending", idx |-> @.idx]
                                ELSE [st |-> "open", idx |-> @.idx + 1]]
                /\ UNCHANGED <<diag, failed, alive>>
           ELSE /\ \E stage \in FailStages("sass") : StageError("sass", stage, f)
                /\ UNCHANGED <<disk, wrote, writers, pending, signalled>>
    /\ UNCHANGED <<cvars, ovars, bindings, outWatch, bsInit, ev, src, edits, limit>>

(* The returned stream ends: orchestrator marks the task done and calls    *)
(* _runStep.                                                               *)
StreamEnd ==
    /\ alive /\ ~stepping
    /\ \E t \in StreamTasks :
        /\ pipe[t].st = "ending"
        /\ pipe' = [pipe EXCEPT ![t] = IdlePipe]
        /\ running' = [running EXCEPT ![t] = FALSE]
        /\ done' = [done EXCEPT ![t] = TRUE]
    /\ stepping' = TRUE
    /\ UNCHANGED <<cvars, booted, isRunning, seq, wvars, hvars, src, disk, diag, failed, alive,
                   edits, limit>>

(* A developer saves a source file while the watchers are up; every        *)
(* registered binding whose globs match it calls gulp.start with its run   *)
(* list.                                                                   *)
Save ==
    /\ alive /\ ~stepping
    /\ bindings # <<>>
    /\ edits < limit
    /\ \E f \in SourceFiles, ok \in BOOLEAN :
        LET names == Dispatch(bindings, f)
        IN  /\ src' = [src EXCEPT ![f.unit] = ok]
            /\ IF names = <<>>
               THEN UNCHANGED <<done, seq, isRunning, stepping, ev>>
               ELSE /\ done' = startDone(names)
                    /\ seq' = startSeq(names)
                    /\ isRunning' = TRUE
                    /\ stepping' = TRUE
                    /\ ev' = [file |-> f.name, names |-> Range(names),
                              wasRunning |-> {t \in StreamTasks : running[t]},
                              started |-> {}]
    /\ edits' = edits + 1
    /\ UNCHANGED <<cvars, booted, running, wvars, wrote, writers, pipe, disk, diag, failed,
                   alive, limit>>

(* The 'change' event of a watched output file: browserSync.reload.        *)
Reload ==
    /\ alive /\ ~stepping
    /\ \E p \in pending :
        /\ pending' = pending \ {p}
        /\ signalled' = signalled \cup {p}
    /\ UNCHANGED <<cvars, ovars, bindings, outWatch, bsInit, hvars, pipe, src, disk, diag,
                   failed, alive, edits, limit>>

Next ==
    \/ CliStart
    \/ RunStreamTask
    \/ RunDefault
    \/ RunWatch
    \/ RunServe
    \/ EndStep
    \/ Rollup
    \/ Dest
    \/ SassFile
    \/ StreamEnd
    \/ Save
    \/ Reload

Spec == Init /\ [][Next]_vars

(* The event loop runs every callback that is due; only the developer's    *)
(* saves are not bound to happen.                                          *)
FairSpec ==
    /\ FairInit /\ [][Next]_vars
    /\ WF_vars(CliStart) /\ WF_vars(RunStreamTask) /\ WF_vars(RunDefault) /\ WF_vars(RunWatch)
    /\ WF_vars(RunServe) /\ WF_vars(EndStep) /\ WF_vars(Rollup) /\ WF_vars(Dest)
    /\ WF_vars(SassFile) /\ WF_vars(StreamEnd) /\ WF_vars(Reload)

-----------------------------------------------------------------------------
(* Claims about the configuration, checked under SpecConfig.               *)

(* The merge as the specification words it: mappings merge recursively,    *)
(* any other override value that is defined takes the place of the         *)
(* default, keys on one side only are kept.                                *)
RECURSIVE ClaimedMerge(_, _)
ClaimedMerge(d, o) ==
    IF o.t = "u" THEN d
    ELSE IF d.t = "m" /\ o.t = "m"
    THEN Map([k \in (DOMAIN d.m) \cup (DOMAIN o.m) |->
                IF k \notin DOMAIN o.m THEN d.m[k]
                ELSE IF k \notin DOMAIN d.m THEN o.m[k]
                ELSE ClaimedMerge(d.m[k], o.m[k])])
    ELSE o

(* C6: the effective configuration is the recursive merge of the defaults  *)
(* with the override: mappings on both sides merge recursively, any other  *)
(* override value, a list such as supportedBrowsers included, replaces the *)
(* default, and keys present on one side only are kept.                    *)
C6_OverrideReplacesDefault ==
    cpc = "merged" => config = ClaimedMerge(Defaults, local)

(* C7: when the override file is absent or fails to load, the load goes on *)
(* with the empty override and the effective configuration is the          *)
(* defaults.                                                               *)
C7_AbsentOverrideGivesDefaults ==
    localFile.state # "present" =>
        /\ cpc # "start" => local = Map(NoMap)
        /\ cpc = "merged" => config = Defaults

C7_Witness ==
    cpc = "merged" /\ localFile.state = "broken" /\ config = Defaults

-----------------------------------------------------------------------------
(* Claims about the task graph.                                            *)

FileNamed(n) == CHOOSE f \in SourceFiles : f.name = n

(* The globs the specification gives for each task's watch binding.        *)
ClaimedGlobs(t) ==
    CASE t = "sass" -> {Glob(config.m["sassSource"].s, "scss")}
      [] t = "app" -> {Glob(config.m["appSource"].s, "js"), Glob(config.m["appSource"].s, "html")}
      [] t = "vendors" -> {Glob(config.m["jsSource"].s, "js")}

ClaimedUnion(f) == {t \in StreamTasks : \E g \in ClaimedGlobs(t) : Matches(g, f)}

C2_PrerequisitesFirst ==
    [][/\ (bindings' # bindings \/ outWatch' # outWatch) =>
            \A d \in {"app", "vendors", "sass", "default"} : done[d] /\ ~running[d]
       /\ (bsInit' # bsInit) =>
            /\ done["watch"]
            /\ Len(bindings) = 3
            /\ {bindings[i].run : i \in 1..3} = {<<"sass">>, <<"app">>, <<"vendors">>}
            /\ outWatch]_vars

C2_Witness ==
    bsInit /\ outWatch /\ Len(bindings) = 3 /\ done["serve"] /\ stepping

(* C3: a failing run of app or vendors logs exactly one line through       *)
(* onError, the failure leaves the process and the sibling pipelines as    *)
(* they are, and every sibling that is running completes.                  *)
C3_OneDiagnosticSiblingsComplete ==
    /\ [](\A t \in {"app", "vendors"} : failed[t] # "" => diag[t] = 1)
    /\ [][\A t \in {"app", "vendors"} :
            (failed[t] = "" /\ failed'[t] # "") =>
                /\ alive'
                /\ \A s \in StreamTasks \ {t} : pipe'[s] = pipe[s] /\ running'[s] = running[s]]_vars
    /\ \A s \in StreamTasks : running[s] ~> (~running[s] /\ done[s])

C3_Witness ==
    /\ failed["app"] = "app" /\ diag["app"] = 1
    /\ running["sass"] /\ pipe["sass"].st = "open"
    /\ running["vendors"]

FromSource(t, u) ==
    IF t = "sass"
    THEN UNION {Written(t, SassFiles[j]) :
                j \in {i \in 1..Len(SassFiles) :
                        \E k \in 1..i : SassFiles[k] = u}}
    ELSE Written(t, u)

ClaimedWatched ==
    {Path("./public/js", "app.js"), Path("./public/js", "vendors.js"),
     Path("./public/css", "app.css")}

(* C8, as stated: in watch mode every completed run that wrote an artifact *)
(* is followed by a reload signal: once such a run is over and no change   *)
(* event is in flight, a reload has been signalled for what it wrote.      *)
C8_EveryWritingRunReloads ==
    \A t \in StreamTasks :
        (ev # NoEvent /\ t \in ev.started /\ ~running[t] /\ wrote[t] # {} /\ pending = {})
            => wrote[t] \cap signalled # {}

(* C8, amended: in watch mode every write of one of the three watched      *)
(* output files is followed by a reload signal; a reload is signalled only *)
(* for a watched output file that was written; a change event comes only   *)
(* from a write, so a run that writes nothing signals none.                *)
C8_WatchedWriteReloads ==
    /\ \A p \in ClaimedWatched : (p \in pending) ~> (p \in signalled)
    /\ [][/\ \A t \in StreamTasks : \A p \in ClaimedWatched :
                (outWatch /\ p \in wrote'[t] \ wrote[t]) => p \in pending'
          /\ \A p \in OutPaths :
                /\ (p \in signalled' \ signalled) => (p \in pending /\ p \in ClaimedWatched /\ disk[p])
                /\ (p \in pending' \ pending) => \E t \in StreamTasks : p \in wrote'[t] \ wrote[t]]_vars

C8_Witness ==
    /\ ev # NoEvent /\ "sass" \in ev.started /\ ~running["sass"]
    /\ Path("./public/css", "app.css") \in wrote["sass"] \cap signalled

StageIndex(q, name) == CHOOSE i \in 1..Len(q) : q[i].name = name

(* C9: a successful run writes the source map next to its artifact when    *)
(* config.sourcemaps is on and the artifact alone when it is off; in sass  *)
(* the source-map stage comes last, after compile, prefixing and           *)
(* minification in that order.                                             *)
C9_SourceMapsFollowOption ==
    /\ \A t \in StreamTasks : \A u \in UnitsOf(t) :
        ArtifactOf(t, u) \in wrote[t] =>
            (Path(ArtifactOf(t, u).dir, MapName(ArtifactOf(t, u).name)) \in wrote[t]
                <=> config.m["sourcemaps"].s = "true")
    /\ StageIndex(SassPipeline, "sass") < StageIndex(SassPipeline, "autoprefixer")
    /\ StageIndex(SassPipeline, "autoprefixer") < StageIndex(SassPipeline, "csso")
    /\ StageIndex(SassPipeline, "csso") < StageIndex(SassPipeline, "sourcemaps.write")
    /\ StageIndex(SassPipeline, "sourcemaps.write") + 1 = StageIndex(SassPipeline, "dest")

(* One task run alone on a set of existing artifacts.                      *)
RunAlone(t, d) ==
    IF t = "sass"
    THEN d \cup UNION {Written(t, SassFiles[i]) :
                        i \in {j \in 1..Len(SassFiles) : \A k \in 1..j : src[SassFiles[k]]}}
    ELSE IF src[t] THEN d \cup Written(t, t) ELSE d

Orders ==
    {o \in [1..3 -> StreamTasks] : \A i, j \in 1..3 : i # j => o[i] # o[j]}

(* C10: app, vendors and sass write pairwise disjoint paths: no artifact   *)
(* is ever written by two tasks, and when default is done the artifacts    *)
(* are those of the three tasks run one after another, in any order.       *)
C10_DisjointOutputs ==
    /\ \A s, t \in StreamTasks : s # t => OutputsOf(s) \cap OutputsOf(t) = {}
    /\ \A p \in OutPaths : Cardinality(writers[p]) <= 1
    /\ (done["default"] /\ edits = 0) =>
            \A o \in Orders :
                {p \in OutPaths : disk[p]} = RunAlone(o[3], RunAlone(o[2], RunAlone(o[1], {})))

C10_Witness ==
    /\ done["default"] /\ edits = 0
    /\ disk[Path("./public/js", "app.js")] /\ disk[Path("./public/js", "vendors.js")]
    /\ disk[Path("./public/css", "app.css")]
    /\ writers[Path("./public/js", "vendors.js")] = {"vendors"}

====
